---- MODULE Spec2Model ----
(***************************************************************************)
(* CommandAlarm (src/commandalarm/commandalarm.py): wait until a time of   *)
(* day on a weekday, run a command, optionally repeat.                     *)
(*                                                                         *)
(* Time is a count of ticks since a Monday 00:00:00; a second is           *)
(* TicksPerSec ticks (the sub-second part of datetime.now()), a day is     *)
(* SecsPerDay seconds.  The main thread's position is pc; the timer thread *)
(* is the record timer.  The program starts at any tick of the first       *)
(* StartDays days of a week (a Monday and the days after it) and is asked  *)
(* for any weekday, so every difference of weekdays occurs.                *)
(***************************************************************************)
EXTENDS Integers, Sequences, FiniteSets, TLC

\* ---------------------------------------------------------------- bounds
SecsPerDay == 2
TicksPerSec == 2
MaxDrift == 1
MaxTimers == 2
StartDays == 2

TicksPerDay == SecsPerDay * TicksPerSec
DaysPerWeek == 7
TicksPerWeek == DaysPerWeek * TicksPerDay

\* ------------------------------------------------------ program constants
ENOENT == 2
EACCES == 13
ETIME == 62
ExitFailure == 1
ArgparseError == 2
ShellNotFound == 127
ShellNotExecutable == 126
ExitModulus == 256

\* ------------------------------------------------------------ input sets
\* a time string is the second of the day it names; SecsPerDay stands for a
\* string strptime("%H:%M:%S") rejects
TimeStrings == 0..SecsPerDay
DayArgs == 0..(DaysPerWeek + 1)
Timeouts == {<< >>, <<1>>}              \* << >> is None (no --timeout)
RunTimes == {1, TicksPerSec + 1, TicksPerWeek}
ReturnCodes == {0, ENOENT, 7}           \* exit statuses of the child
Outputs == {<< >>, <<" ", "x", " ">>}
Lookups == {"ok", "missing", "noperm"}

\* ------------------------------------------------------------- datetime
DateOf(t) == t \div TicksPerDay
TimeOf(t) == t % TicksPerDay
IsoWeekday(d) == (d % DaysPerWeek) + 1
Combine(d, tm) == d * TicksPerDay + tm

\* datetime.datetime.strptime(time_str, "%H:%M:%S")
ParsesOk(ts) == ts \in 0..(SecsPerDay - 1)
TimeObj(ts) == ts * TicksPerSec

\* str.strip()
IsSpace(c) == c \in {" ", "\n", "\t"}
RECURSIVE LStrip(_)
LStrip(s) == IF s # << >> /\ IsSpace(Head(s)) THEN LStrip(Tail(s)) ELSE s
RECURSIVE RStrip(_)
RStrip(s) ==
  IF s # << >> /\ IsSpace(s[Len(s)]) THEN RStrip(SubSeq(s, 1, Len(s) - 1)) ELSE s
Strip(s) == RStrip(LStrip(s))

\* sys.exit(n): the status the parent sees
ExitStatus(n) == n % ExitModulus

VARIABLES pc, args, clock, ALARM_FIRED, timer, sa, prev_alarm,
          timers, fires, runs, result, exit_code, stdout, stderr, caught

vars == <<pc, args, clock, ALARM_FIRED, timer, sa, prev_alarm,
          timers, fires, runs, result, exit_code, stdout, stderr, caught>>

NoTimer == [state |-> "none", interval |-> 0, deadline |-> 0]
NoAlarm == [today |-> 0, now_cmp |-> 0, now_sub |-> 0, days_ahead |-> 0,
            alarm_datetime |-> 0, seconds |-> 0]
NoResult == [kind |-> "none", lookup |-> "ok", returncode |-> 0,
             captured |-> << >>]
NoMessage == [text |-> "", status |-> 0, detail |-> << >>]

Init ==
  /\ pc = "parse"
  /\ args \in [time : TimeStrings, day : DayArgs, repeat : BOOLEAN,
               shell : BOOLEAN, check : BOOLEAN, timeout : Timeouts]
  /\ clock \in 0..(StartDays * TicksPerDay - 1)
  /\ ALARM_FIRED = FALSE
  /\ timer = NoTimer
  /\ sa = NoAlarm
  /\ prev_alarm = -1
  /\ timers = 0
  /\ fires = 0
  /\ runs = 0
  /\ result = NoResult
  /\ exit_code = 0
  /\ stdout = << >>
  /\ stderr = NoMessage
  /\ caught = "none"

\* error_exit that prints and returns instead of exiting
error_exit_Returns(text, status, detail, code) ==
  /\ stderr' = [text |-> text, status |-> status, detail |-> detail]
  /\ exit_code' = exit_code
  /\ pc' = IF pc = "running" /\ args.repeat THEN "sleep" ELSE "done"

\* error_exit(message, exit_code): print to stderr, sys.exit
error_exit(text, status, detail, code) ==
  /\ stderr' = [text |-> text, status |-> status, detail |-> detail]
  /\ exit_code' = ExitStatus(code)
  /\ pc' = "done"

\* parse_arguments: type=valid_time_string and choices=range(1, 8) are
\* argparse errors (usage message, exit status 2)
parse_arguments ==
  /\ UNCHANGED caught
  /\ pc = "parse"
  /\ IF ParsesOk(args.time) /\ args.day \in 1..DaysPerWeek
       THEN /\ pc' = "set_alarm"
            /\ UNCHANGED <<exit_code, stderr>>
       ELSE error_exit("usage", 0, << >>, ArgparseError)
  /\ UNCHANGED <<args, clock, ALARM_FIRED, timer, sa, prev_alarm,
                 timers, fires, runs, result, stdout>>

\* DaysAhead without the week added when the weekday or the time has passed
DaysAhead_NoWrap(day, today, now_time, time_obj) == day - IsoWeekday(today)

\* DaysAhead adding the week only when the weekday has passed, whatever the time
DaysAhead_IgnoreTime(day, today, now_time, time_obj) ==
  LET days_ahead == day - IsoWeekday(today)
  IN IF days_ahead < 0 THEN days_ahead + DaysPerWeek ELSE days_ahead

\* set_alarm lines 68-71: days from today's date to the requested weekday
DaysAhead(day, today, now_time, time_obj) ==
  LET days_ahead == day - IsoWeekday(today)
  IN IF days_ahead < 0 \/ (days_ahead = 0 /\ now_time > time_obj)
       THEN days_ahead + DaysPerWeek
       ELSE days_ahead

\* SecondsUntilAlarm without the clamp of lines 76-77
SecondsUntilAlarm_NoClamp(alarm_datetime, now) == alarm_datetime - now

\* SecondsUntilAlarm with the interval clamped to zero, not to one second
SecondsUntilAlarm_ClampZero(alarm_datetime, now) ==
  LET seconds_until_alarm == alarm_datetime - now
  IN IF seconds_until_alarm <= 0 THEN 0 ELSE seconds_until_alarm

\* set_alarm lines 74-77: the timer's interval, never zero or negative
SecondsUntilAlarm(alarm_datetime, now) ==
  LET seconds_until_alarm == alarm_datetime - now
  IN IF seconds_until_alarm <= 0 THEN TicksPerSec ELSE seconds_until_alarm

\* set_alarm reads the clock three times: date.today() (line 67),
\* datetime.now().time() (line 70) and datetime.now() (line 75); d1 and d2
\* are the ticks that pass between the readings
AlarmFor(time_str, day, now, d1, d2) ==
  LET today == DateOf(now)
      now_cmp == now + d1
      now_sub == now_cmp + d2
      time_obj == TimeObj(time_str)
      days_ahead == DaysAhead(day, today, TimeOf(now_cmp), time_obj)
      alarm_datetime == Combine(today + days_ahead, time_obj)
  IN [today |-> today, now_cmp |-> now_cmp, now_sub |-> now_sub,
      days_ahead |-> days_ahead, alarm_datetime |-> alarm_datetime,
      seconds |-> SecondsUntilAlarm(alarm_datetime, now_sub)]

\* timer = set_alarm(args.time, args.day), first cycle (line 197) and every
\* repeat cycle (line 241); a ValueError goes to the handler of line 245
set_alarm ==
  /\ UNCHANGED caught
  /\ pc = "set_alarm"
  /\ timers < MaxTimers
  /\ IF ParsesOk(args.time) /\ args.day \in 1..DaysPerWeek
       THEN \E d1 \in 0..MaxDrift, d2 \in 0..MaxDrift :
              LET a == AlarmFor(args.time, args.day, clock, d1, d2)
              IN /\ sa' = a
                 /\ prev_alarm' = IF timers = 0 THEN -1 ELSE sa.alarm_datetime
                 /\ clock' = a.now_sub
                 /\ timer' = [state |-> "created", interval |-> a.seconds,
                              deadline |-> 0]
                 /\ timers' = timers + 1
                 /\ pc' = "start"
                 /\ UNCHANGED <<exit_code, stderr>>
       ELSE /\ error_exit("Unable to set the alarm", 0, << >>, ExitFailure)
            /\ UNCHANGED <<sa, prev_alarm, clock, timer, timers>>
  /\ UNCHANGED <<args, ALARM_FIRED, fires, runs, result, stdout>>

\* timer.start() (lines 198, 242)
timer_start ==
  /\ UNCHANGED caught
  /\ pc = "start"
  /\ timer.state = "created"
  /\ timer' = [timer EXCEPT !.state = "pending",
                            !.deadline = clock + timer.interval]
  /\ pc' = "wait"
  /\ UNCHANGED <<args, clock, ALARM_FIRED, sa, prev_alarm, timers, fires,
                 runs, result, exit_code, stdout, stderr>>

\* a periodic timer: it calls alarm_handler and stays armed for another
\* interval
alarm_handler_Periodic ==
  /\ UNCHANGED caught
  /\ timer.state = "pending"
  /\ clock' = IF clock > timer.deadline THEN clock ELSE timer.deadline
  /\ ALARM_FIRED' = TRUE
  /\ timer' = [timer EXCEPT !.deadline = clock' + timer.interval]
  /\ fires' = fires + 1
  /\ UNCHANGED <<pc, args, sa, prev_alarm, timers, runs, result,
                 exit_code, stdout, stderr>>

\* the timer thread: when the interval has passed it calls alarm_handler
\* (lines 32-41); a late call is time the command's run then seems to take
alarm_handler ==
  /\ UNCHANGED caught
  /\ timer.state = "pending"
  /\ clock' = IF clock > timer.deadline THEN clock ELSE timer.deadline
  /\ ALARM_FIRED' = TRUE
  /\ timer' = [timer EXCEPT !.state = "finished"]
  /\ fires' = fires + 1
  /\ UNCHANGED <<pc, args, sa, prev_alarm, timers, runs, result,
                 exit_code, stdout, stderr>>

\* the wait loop left as soon as the timer has been started
join_timer_Early ==
  /\ pc = "wait"
  /\ pc' = "run"
  /\ UNCHANGED <<args, clock, ALARM_FIRED, timer, sa, prev_alarm, timers,
                 fires, runs, result, exit_code, stdout, stderr, caught>>

\* while not ALARM_FIRED: timer.join()  (lines 200-204), then line 209: main
\* is blocked in join() while the timer thread lives and leaves the loop
\* when it finds the flag set
join_timer ==
  /\ UNCHANGED caught
  /\ pc = "wait"
  /\ ALARM_FIRED
  /\ pc' = "run"
  /\ UNCHANGED <<args, clock, ALARM_FIRED, timer, sa, prev_alarm, timers,
                 fires, runs, result, exit_code, stdout, stderr>>

\* subprocess.run starts the child (Popen).  Without a shell the program is
\* executed directly and a failed exec is raised; with shell=True the shell
\* is what is executed, and it starts whatever the lookup gives
PopenRaises(shell, lookup) ==
  IF shell THEN "none"
  ELSE CASE lookup = "missing" -> "FileNotFoundError"
         [] lookup = "noperm" -> "PermissionError"
         [] OTHER -> "none"

\* the status the child ends with: the shell reports a command it cannot
\* find or may not execute by its own exit status
ChildStatus(shell, lookup, rc) ==
  CASE shell /\ lookup = "missing" -> ShellNotFound
    [] shell /\ lookup = "noperm" -> ShellNotExecutable
    [] OTHER -> rc

TimeoutTicks(timeout) == timeout[1] * TicksPerSec

\* RunRaises with check=args.check left out of the call (check=False)
RunRaises_NoCheck(check, timeout, status, took) ==
  IF timeout # << >> /\ took > TimeoutTicks(timeout) THEN "TimeoutExpired"
  ELSE "CompletedProcess"

\* RunRaises with check=True whatever --no-check says
RunRaises_AlwaysCheck(check, timeout, status, took) ==
  IF timeout # << >> /\ took > TimeoutTicks(timeout) THEN "TimeoutExpired"
  ELSE IF status # 0 THEN "CalledProcessError"
  ELSE "CompletedProcess"

\* subprocess.run(..., timeout=args.timeout, check=args.check) once the child
\* runs: what it raises, or "CompletedProcess"
RunRaises(check, timeout, status, took) ==
  IF timeout # << >> /\ took > TimeoutTicks(timeout) THEN "TimeoutExpired"
  ELSE IF check /\ status # 0 THEN "CalledProcessError"
  ELSE "CompletedProcess"

\* HandlerCode with error_exit's default code for a failed command
HandlerCode_Generic(kind, returncode) ==
  CASE kind = "FileNotFoundError" -> ENOENT
    [] kind = "CalledProcessError" -> ExitFailure
    [] kind = "PermissionError" -> EACCES
    [] kind = "TimeoutExpired" -> ETIME

\* HandlerCode with ENOENT for a PermissionError too
HandlerCode_SameErrno(kind, returncode) ==
  CASE kind = "FileNotFoundError" -> ENOENT
    [] kind = "CalledProcessError" -> returncode
    [] kind = "PermissionError" -> ENOENT
    [] kind = "TimeoutExpired" -> ETIME

\* the except clauses of lines 219-235: the code handed to error_exit
HandlerCode(kind, returncode) ==
  CASE kind = "FileNotFoundError" -> ENOENT
    [] kind = "CalledProcessError" -> returncode
    [] kind = "PermissionError" -> EACCES
    [] kind = "TimeoutExpired" -> ETIME

HandlerText(kind) ==
  CASE kind = "FileNotFoundError" -> "Command not found"
    [] kind = "CalledProcessError" -> "Command exited with status code"
    [] kind = "PermissionError" -> "Permission error"
    [] kind = "TimeoutExpired" -> "Command timed out after"

Exceptions ==
  {"FileNotFoundError", "CalledProcessError", "PermissionError", "TimeoutExpired"}

\* the captured stream the program goes on to read, result.stdout (line 237)
\* or called_process_err.stderr (line 225), holding what the child wrote
Captured(kind, written) ==
  IF kind \in {"CompletedProcess", "CalledProcessError"} THEN written ELSE << >>

\* AfterRun with the repeat branch taken whatever --repeat says
AfterRun_Always(repeat) == "sleep"

\* AfterRun with the break taken whatever --repeat says
AfterRun_Never(repeat) == "done"

\* lines 238-244: after a run that raised nothing
AfterRun(repeat) == IF repeat THEN "sleep" ELSE "done"

\* ResetFired without the reset of line 239
ResetFired_Skip(repeat, fired) == fired

\* ALARM_FIRED = False in the repeat branch (line 239)
ResetFired(repeat, fired) == IF repeat THEN FALSE ELSE fired

\* subprocess.run, first half (line 211): the child is started, or the exec
\* fails and the handler of line 219 or 228 exits
popen ==
  /\ UNCHANGED caught
  /\ pc = "run"
  /\ runs' = runs + 1
  /\ \E lookup \in Lookups :
       LET kind == PopenRaises(args.shell, lookup)
       IN IF kind \in Exceptions
            THEN /\ result' = [NoResult EXCEPT !.kind = kind, !.lookup = lookup]
                 /\ error_exit(HandlerText(kind), 0, << >>,
                               HandlerCode(kind, 0))
            ELSE /\ result' = [NoResult EXCEPT !.kind = "Popen", !.lookup = lookup]
                 /\ pc' = "running"
                 /\ UNCHANGED <<exit_code, stderr>>
  /\ UNCHANGED <<args, clock, ALARM_FIRED, timer, sa, prev_alarm, timers,
                 fires, stdout>>

\* subprocess.run, second half, and lines 221-244: the child ends or is
\* killed at the timeout; an exception exits, otherwise the stripped output
\* is printed and the loop repeats or breaks
communicate ==
  /\ UNCHANGED caught
  /\ pc = "running"
  /\ \E rc \in ReturnCodes, d \in RunTimes, written \in Outputs :
       LET status == ChildStatus(args.shell, result.lookup, rc)
           took == IF result.lookup = "ok" THEN d ELSE 0
           kind == RunRaises(args.check, args.timeout, status, took)
           elapsed == IF kind = "TimeoutExpired"
                        THEN TimeoutTicks(args.timeout) ELSE took
       IN /\ clock' = clock + elapsed
          /\ result' = [kind |-> kind, lookup |-> result.lookup,
                        returncode |-> status,
                        captured |-> Captured(kind, written)]
          /\ IF kind \in Exceptions
               THEN /\ error_exit(HandlerText(kind),
                                  IF kind = "TimeoutExpired"
                                    THEN args.timeout[1] ELSE status,
                                  IF kind = "CalledProcessError"
                                    THEN Strip(written) ELSE << >>,
                                  HandlerCode(kind, status))
                    /\ UNCHANGED <<stdout, ALARM_FIRED>>
               ELSE /\ stdout' = Strip(written)
                    /\ pc' = AfterRun(args.repeat)
                    /\ ALARM_FIRED' = ResetFired(args.repeat, ALARM_FIRED)
                    /\ exit_code' = 0
                    /\ UNCHANGED stderr
  /\ UNCHANGED <<args, timer, sa, prev_alarm, timers, fires, runs>>

\* time.sleep(1) (line 240); result and stdout describe the cycle that ended
sleep ==
  /\ UNCHANGED caught
  /\ pc = "sleep"
  /\ clock' = clock + TicksPerSec
  /\ pc' = "set_alarm"
  /\ result' = NoResult
  /\ stdout' = << >>
  /\ UNCHANGED <<args, ALARM_FIRED, timer, sa, prev_alarm, timers, fires,
                 runs, exit_code, stderr>>

\* KeyboardInterrupt raised in the main thread inside the try of line 196
\* (Ctrl-C): control goes to the handler of line 247; caught is where main
\* was.  The timer thread goes on running meanwhile
KeyboardInterrupt ==
  /\ pc \in {"set_alarm", "start", "wait", "run", "running", "sleep"}
  /\ caught' = pc
  /\ pc' = "interrupt"
  /\ UNCHANGED <<args, clock, ALARM_FIRED, timer, sa, prev_alarm, timers,
                 fires, runs, result, exit_code, stdout, stderr>>

\* CancelTimer that leaves the timer running
CancelTimer_Noop(t) == t

\* timer.cancel() (line 248): a timer still waiting stops without calling
\* alarm_handler
CancelTimer(t) ==
  IF t.state = "pending" THEN [t EXCEPT !.state = "cancelled"] ELSE t

\* join() returning only for a timer that has called alarm_handler
JoinReturns_OnlyFired(t) == t.state = "finished"

\* timer.join() (line 249) returns once the timer thread has ended
JoinReturns(t) == t.state \in {"finished", "cancelled"}

\* the handler of lines 247-250: timer.cancel(), timer.join(), error_exit.
\* With no timer bound yet (first set_alarm) line 248 raises
\* UnboundLocalError; with a timer created and not started line 249 raises
\* RuntimeError; either ends the process by an unhandled exception (a
\* traceback, exit status 1)
except_KeyboardInterrupt ==
  /\ pc = "interrupt"
  /\ CASE timer.state = "none" ->
            /\ error_exit("Traceback: UnboundLocalError", 0, << >>, ExitFailure)
            /\ UNCHANGED timer
       [] timer.state = "created" ->
            /\ error_exit("Traceback: RuntimeError", 0, << >>, ExitFailure)
            /\ UNCHANGED timer
       [] OTHER ->
            /\ JoinReturns(CancelTimer(timer))
            /\ timer' = CancelTimer(timer)
            /\ error_exit("Alarm stopped manually.", 0, << >>, ExitFailure)
  /\ UNCHANGED <<args, clock, ALARM_FIRED, sa, prev_alarm, timers, fires,
                 runs, result, stdout, caught>>

Next ==
  \/ parse_arguments
  \/ set_alarm
  \/ timer_start
  \/ alarm_handler
  \/ join_timer
  \/ popen
  \/ communicate
  \/ sleep
  \/ KeyboardInterrupt
  \/ except_KeyboardInterrupt

Spec == Init /\ [][Next]_vars

\* ------------------------------------------------------------------------
\* Properties
\* ------------------------------------------------------------------------

\* set_alarm has computed a fire instant (sa) in this run of the program
Computed == timers >= 1

\* the three clock readings of the last set_alarm are one instant 'now'
SingleNow == sa.now_cmp = sa.now_sub /\ DateOf(sa.now_sub) = sa.today

\* the fire instant has the requested time of day and ISO weekday
MatchesRequest ==
  /\ TimeOf(sa.alarm_datetime) = TimeObj(args.time)
  /\ IsoWeekday(DateOf(sa.alarm_datetime)) = args.day

\* the run of the command has ended: it completed, or it raised
Ended == result.kind \in Exceptions \cup {"CompletedProcess"}

\* a manual interrupt has been raised in the main thread
Interrupted == caught # "none"

\* C1 as stated: for every 'now' (the three readings being that one instant)
\* the fire instant is strictly after 'now', at most 7 days after it, and has
\* the requested time of day and weekday.
C1_Original ==
  (Computed /\ SingleNow) =>
    /\ sa.alarm_datetime > sa.now_sub
    /\ sa.alarm_datetime - sa.now_sub <= TicksPerWeek
    /\ MatchesRequest

\* C1 amended: the fire instant always has the requested time of day and
\* weekday and is at most 7 days after 'now' (the last clock reading); when
\* the readings are one instant 'now' it is at or after 'now', and it is
\* 'now' itself only when the weekday is today's and the time of day is
\* exactly now's; the wait handed to the timer is then the clamped second.
C1_FireInstant ==
  Computed =>
    /\ MatchesRequest
    /\ sa.alarm_datetime - sa.now_sub <= TicksPerWeek
    /\ sa.alarm_datetime >= sa.today * TicksPerDay
    /\ SingleNow => /\ sa.alarm_datetime >= sa.now_sub
                    /\ (sa.alarm_datetime = sa.now_sub) =>
                         /\ args.day = IsoWeekday(sa.today)
                         /\ TimeOf(sa.now_sub) = TimeObj(args.time)
                         /\ sa.seconds = TicksPerSec

\* a fire instant that is 'now' itself, not strictly after it
C1_Witness ==
  /\ Computed
  /\ SingleNow
  /\ sa.alarm_datetime = sa.now_sub
  /\ timer.interval = TicksPerSec

\* C2: when the requested weekday is today's (date.today(), line 67) and the
\* time of day of 'now' (datetime.now(), line 70) is past the requested one,
\* the fire instant is the requested time on the date 7 days after today.
C2_SameDayPast ==
  (Computed /\ args.day = IsoWeekday(sa.today)
            /\ TimeOf(sa.now_cmp) > TimeObj(args.time)) =>
    /\ DateOf(sa.alarm_datetime) = sa.today + 7
    /\ TimeOf(sa.alarm_datetime) = TimeObj(args.time)
    /\ sa.alarm_datetime - sa.now_cmp > 0

C2_Witness ==
  /\ Computed
  /\ args.day = IsoWeekday(sa.today)
  /\ TimeOf(sa.now_cmp) > TimeObj(args.time)
  /\ DateOf(sa.alarm_datetime) = sa.today + 7
  /\ pc = "start"

\* C3: without --repeat there is one cycle whatever the outcome: at most one
\* timer is created, the command is started at most once, and once its run
\* has ended (completed or raised) the process has terminated.
C3_OneCycle ==
  ~args.repeat =>
    /\ timers <= 1
    /\ runs <= 1
    /\ runs <= fires
    /\ Ended => /\ pc = "done"
                /\ runs = 1
                /\ timers = 1
                /\ ~ENABLED Next

C3_Witness ==
  /\ ~args.repeat
  /\ pc = "done"
  /\ result.kind = "TimeoutExpired"
  /\ runs = 1
  /\ timers = 1

\* a step of the program itself (main thread or timer thread), no interrupt
ProgramStep ==
  \/ set_alarm
  \/ timer_start
  \/ alarm_handler
  \/ join_timer
  \/ popen
  \/ communicate
  \/ sleep

\* the model's bound on cycles is reached
AtBound == pc = "set_alarm" /\ timers = MaxTimers

\* C4: with --repeat and a command whose runs raise nothing, the loop does
\* not end on its own: the process terminates only by a manual interrupt,
\* a completed run leads back to a new timer, and short of termination the
\* program always has a next step.
C4_RepeatsForever ==
  (args.repeat /\ result.kind \notin Exceptions) =>
    /\ (pc = "done" /\ stderr.text # "usage") => Interrupted
    /\ result.kind = "CompletedProcess" => (pc = "sleep" \/ Interrupted)
    /\ (pc \notin {"parse", "done", "interrupt"} /\ ~AtBound) =>
         ENABLED ProgramStep
    /\ pc = "wait" => /\ timer.state \in {"pending", "finished"}
                      /\ timers = runs + 1

C4_Witness ==
  /\ args.repeat
  /\ runs = MaxTimers - 1
  /\ pc = "wait"
  /\ timers = MaxTimers
  /\ timer.state = "pending"

\* C5 as stated: the fire instant recomputed for a repeat cycle is exactly
\* one week after the fire instant of the cycle before.
C5_Original ==
  prev_alarm >= 0 => sa.alarm_datetime = prev_alarm + TicksPerWeek

\* the last set_alarm read the date (line 67) and the time (line 70) on one
\* date, less than a week after the fire instant of the cycle before
RecomputedWithinWeek ==
  /\ DateOf(sa.now_cmp) = sa.today
  /\ sa.now_sub - prev_alarm < TicksPerWeek

\* C5 amended: the recomputed fire instant is the previous one plus a whole
\* number of weeks, never earlier than it; it is exactly one week later when
\* the recomputation happens less than 7 days after the previous fire
\* instant with its date and time readings on one date.
C5_WeeklyAdvance ==
  prev_alarm >= 0 =>
    /\ (sa.alarm_datetime - prev_alarm) % TicksPerWeek = 0
    /\ sa.alarm_datetime >= prev_alarm
    /\ sa.now_sub > prev_alarm
    /\ RecomputedWithinWeek => sa.alarm_datetime = prev_alarm + TicksPerWeek

C5_Witness ==
  /\ prev_alarm >= 0
  /\ RecomputedWithinWeek
  /\ sa.alarm_datetime = prev_alarm + TicksPerWeek
  /\ runs = 1
  /\ pc = "wait"

\* C6: with --repeat, a run that raises (not found, permission denied, timed
\* out, non-zero status under checking) ends the process in that cycle: the
\* process is done, no timer was created after the one that fired for this
\* run, and nothing can run again.
C6_ErrorEndsRepeat ==
  (args.repeat /\ result.kind \in Exceptions) =>
    /\ pc = "done"
    /\ stderr.text = HandlerText(result.kind)
    /\ timers = runs
    /\ timer.state = "finished"
    /\ ~ENABLED Next

C6_Witness ==
  /\ args.repeat
  /\ result.kind = "CalledProcessError"
  /\ runs = 2
  /\ timers = 2
  /\ pc = "done"

\* C7 as stated: the loop goes back to waiting (the repeat branch, line 239)
\* only after a run that completed with exit status 0 under exit-code
\* checking.
C7_Original ==
  pc = "sleep" =>
    /\ result.kind = "CompletedProcess"
    /\ result.returncode = 0
    /\ args.check

\* C7 amended: the loop goes back to waiting only after a run that raised
\* nothing: the command completed (within the timeout, if one is set) with
\* exit status 0 when exit codes are checked, and with any status when they
\* are not (--no-check).
C7_OnlyCompletedRunRepeats ==
  pc = "sleep" =>
    /\ args.repeat
    /\ result.kind = "CompletedProcess"
    /\ args.check => result.returncode = 0
    /\ ~ALARM_FIRED
    /\ stderr = NoMessage

C7_Witness ==
  /\ pc = "sleep"
  /\ ~args.check
  /\ result.returncode = 7

\* the child ran to its end: it was started and was not killed at the timeout
RanToEnd == result.kind \in {"CompletedProcess", "CalledProcessError"}

\* C8: with exit codes checked, a command that ends with exit status c in
\* 1..255 makes the process exit with exactly c, with the captured standard
\* error (stripped) in the message, with and without --repeat.
C8_ExitCodePropagates ==
  (args.check /\ RanToEnd /\ result.returncode > 0) =>
    /\ pc = "done"
    /\ exit_code = result.returncode
    /\ stderr.text = "Command exited with status code"
    /\ stderr.status = result.returncode
    /\ stderr.detail = Strip(result.captured)
    /\ stdout = << >>

C8_Witness ==
  /\ args.check
  /\ args.repeat
  /\ result.returncode = 7
  /\ exit_code = 7
  /\ pc = "done"
  /\ result.captured = <<" ", "x", " ">>
  /\ stderr.detail = <<"x">>

\* C9: with exit codes not checked, every exit status is a success: the
\* stripped standard output is printed, nothing goes to the error stream,
\* and without --repeat the process ends with exit code 0.
C9_NoCheckIsSuccess ==
  (~args.check /\ RanToEnd /\ ~Interrupted) =>
    /\ result.kind = "CompletedProcess"
    /\ stdout = Strip(result.captured)
    /\ stderr = NoMessage
    /\ ~args.repeat => (pc = "done" /\ exit_code = 0)
    /\ args.repeat => pc = "sleep"

C9_Witness ==
  /\ ~args.check
  /\ ~args.repeat
  /\ result.returncode = 7
  /\ result.captured = <<" ", "x", " ">>
  /\ stdout = <<"x">>
  /\ pc = "done"
  /\ exit_code = 0

\* C10 as stated: a command that cannot be found ends the process with
\* ENOENT, one that may not be executed with EACCES, one that does not end
\* within the timeout with ETIME, each in that cycle.
C10_Claim ==
  (Ended /\ ~Interrupted) =>
    /\ result.lookup = "missing" => (pc = "done" /\ exit_code = ENOENT)
    /\ result.lookup = "noperm" => (pc = "done" /\ exit_code = EACCES)
    /\ result.kind = "TimeoutExpired" => (pc = "done" /\ exit_code = ETIME)

\* the exit codes the handlers of lines 219-235 fix themselves
FixedCodes == {ENOENT, EACCES, ETIME}

\* C11 as stated: the exit code alone identifies the outcome variant of a
\* failed run (NotFound, PermissionDenied, TimedOut, NonZeroExit).
C11_Original ==
  (result.kind \in Exceptions /\ pc = "done") =>
    /\ exit_code = ENOENT <=> result.kind = "FileNotFoundError"
    /\ exit_code = EACCES <=> result.kind = "PermissionError"
    /\ exit_code = ETIME <=> result.kind = "TimeoutExpired"

\* C11 amended: NotFound, PermissionDenied and TimedOut end the process with
\* three different codes (ENOENT, EACCES, ETIME) and NonZeroExit with the
\* command's own non-zero status; that status may be one of the three, so
\* the exit code identifies the variant only when it is none of them or the
\* command's status is none of them.
C11_ExitCodes ==
  (result.kind \in Exceptions /\ pc = "done") =>
    /\ exit_code # 0
    /\ result.kind = "FileNotFoundError" => exit_code = ENOENT
    /\ result.kind = "PermissionError" => exit_code = EACCES
    /\ result.kind = "TimeoutExpired" => exit_code = ETIME
    /\ result.kind = "CalledProcessError" => exit_code = result.returncode
    /\ result.kind # "CalledProcessError" =>
         /\ exit_code = ENOENT <=> result.kind = "FileNotFoundError"
         /\ exit_code = EACCES <=> result.kind = "PermissionError"
         /\ exit_code = ETIME <=> result.kind = "TimeoutExpired"
    /\ exit_code \notin FixedCodes => result.kind = "CalledProcessError"

\* a command whose own status is the code of NotFound
C11_Witness ==
  /\ result.kind = "CalledProcessError"
  /\ result.lookup = "ok"
  /\ exit_code = ENOENT
  /\ pc = "done"

\* the arguments fail validation: a time that is not HH:MM:SS or a weekday
\* outside 1..7
InvalidArgs == ~(ParsesOk(args.time) /\ args.day \in 1..7)

\* C12 as stated: a validation failure ends the process with status 1 before
\* any timer is created or started.
C12_Claim ==
  (InvalidArgs /\ pc = "done") =>
    /\ exit_code = 1
    /\ timers = 0
    /\ timer.state = "none"

\* C13: a manual interrupt raised while main waits (timer.join()) ends the
\* process with status 1 and 'Alarm stopped manually.'; a timer still
\* pending is cancelled, no timer thread is left waiting, and the command of
\* that cycle is never executed.
C13_InterruptWhileWaiting ==
  caught = "wait" =>
    /\ pc \in {"interrupt", "done"}
    /\ runs = timers - 1
    /\ result = NoResult
    /\ pc = "interrupt" => ENABLED except_KeyboardInterrupt
    /\ pc = "done" =>
         /\ exit_code = 1
         /\ stderr.text = "Alarm stopped manually."
         /\ timer.state \in {"cancelled", "finished"}
         /\ fires < timers => timer.state = "cancelled"
         /\ ~ENABLED Next

C13_Witness ==
  /\ caught = "wait"
  /\ pc = "done"
  /\ timer.state = "cancelled"
  /\ ~ALARM_FIRED
  /\ exit_code = 1
  /\ timers = 2

\* C14 as stated: a manual interrupt at any point of main after argument
\* parsing ends the process with 'Alarm stopped manually.' and status 1.
C14_Claim ==
  (Interrupted /\ pc = "done") =>
    /\ stderr.text = "Alarm stopped manually."
    /\ exit_code = 1

\* C15: an interrupt that races with the firing of a started timer never
\* blocks: whether the timer is still pending or has fired (before the
\* command has started), the handler's cancel() and join() complete at once
\* and the process terminates with the timer thread ended.
C15_NoDeadlockOnRace ==
  (Interrupted /\ caught \in {"wait", "run"}) =>
    /\ timer.state \in {"pending", "finished", "cancelled"}
    /\ pc = "interrupt" => ENABLED except_KeyboardInterrupt
    /\ pc = "done" => /\ timer.state \in {"finished", "cancelled"}
                      /\ JoinReturns(timer)
                      /\ stderr.text = "Alarm stopped manually."
                      /\ ~ENABLED Next
    /\ pc \in {"interrupt", "done"}

\* the interrupt came after the timer fired and before the command started
C15_Witness ==
  /\ caught = "run"
  /\ pc = "done"
  /\ ALARM_FIRED
  /\ timer.state = "finished"
  /\ runs = timers - 1

\* C16: one execution per firing and none without: a timer fires at most
\* once, main leaves the wait loop only with ALARM_FIRED set, and the runs
\* started never exceed the timers that have fired.
C16_OneRunPerFiring ==
  /\ fires <= timers
  /\ runs <= fires
  /\ fires <= runs + 1
  /\ pc = "run" => (ALARM_FIRED /\ timer.state = "finished" /\ fires = runs + 1)
  /\ pc \in {"running", "sleep"} => fires = runs
  /\ timer.state = "finished" <=> (timers >= 1 /\ fires = timers)

C16_Witness ==
  /\ runs = 2
  /\ fires = 2
  /\ timers = 2
  /\ pc = "running"

\* C17: ALARM_FIRED is false whenever a wait cycle begins: it is false while
\* a timer is created, started and pending, in the first cycle and in every
\* repeat cycle, and when it is true it was set by the timer of the current
\* cycle.
C17_FlagFalseAtCycleStart ==
  /\ timer.state \in {"none", "created", "pending", "cancelled"} => ~ALARM_FIRED
  /\ pc \in {"parse", "set_alarm", "start", "sleep"} => ~ALARM_FIRED
  /\ ALARM_FIRED => (timer.state = "finished" /\ fires = timers)

C17_Witness ==
  /\ timers = 2
  /\ fires = 1
  /\ timer.state = "pending"
  /\ pc = "wait"
  /\ ~ALARM_FIRED

\* C18: cycles are sequential: while the command is about to run, running or
\* just over no timer is pending; a new timer is created only after the
\* command of the cycle before has completed, its timer thread ended.
C18_SequentialCycles ==
  /\ timers <= runs + 1
  /\ pc \in {"run", "running", "sleep"} => timer.state = "finished"
  /\ (pc = "set_alarm" /\ timers >= 1) =>
       (timer.state = "finished" /\ runs = timers)
  /\ timer.state \in {"created", "pending"} =>
       (runs = timers - 1 /\ result = NoResult)

C18_Witness ==
  /\ timers = 2
  /\ runs = 1
  /\ timer.state = "created"
  /\ pc = "start"

\* C19: the interval handed to the timer is strictly positive: the fire
\* instant minus 'now' (line 75) when that is positive, and exactly one
\* second when the fire instant is not after 'now'; so the timer never fires
\* at the instant it is started.
C19_PositiveWait ==
  Computed =>
    /\ sa.seconds > 0
    /\ sa.alarm_datetime > sa.now_sub =>
         sa.seconds = sa.alarm_datetime - sa.now_sub
    /\ sa.alarm_datetime <= sa.now_sub => sa.seconds = TicksPerSec
    /\ timer.interval = sa.seconds
    /\ timer.state \in {"pending", "cancelled"} =>
         timer.deadline = sa.now_sub + sa.seconds
    /\ timer.state = "finished" => clock > sa.now_sub

\* a fire instant before 'now' and the wait clamped to one second
C19_Witness ==
  /\ Computed
  /\ sa.alarm_datetime < sa.now_sub
  /\ timer.state = "pending"
  /\ timer.interval = TicksPerSec

\* C20 as stated: in repeat mode the fire instant computed for a cycle is
\* strictly later than the fire instant of the cycle before.
C20_Claim ==
  prev_alarm >= 0 => sa.alarm_datetime > prev_alarm

====
